---- MODULE Spec2Model ----
(***************************************************************************)
(* Model of portfoliodb.                                                   *)
(*                                                                         *)
(* Specification Spec: the valuation engine,                               *)
(* backend/core/table_calculations.py, function developments(), over the   *)
(* Movement and InvestmentPrice tables of backend/core/models.py.          *)
(* Specification SpecFetch: the quote fetch of                             *)
(* backend/core/services/quote_fetcher.py with its providers and the       *)
(* currency converter.  Specification SpecConvert: one call of             *)
(* CurrencyConverter.convert.                                              *)
(*                                                                         *)
(* Decimal values are modelled as exact rationals <<numerator,             *)
(* denominator>> in lowest terms with a positive denominator.  Python's    *)
(* None and SQL's NULL are the value None.                                 *)
(*                                                                         *)
(* The queries are evaluated by the database.  A table is a bag of rows    *)
(* (no query reads the row id).  Division is exact; a division by zero     *)
(* has the two outcomes databases give it: the value NULL (action          *)
(* Developments) or an error that developments() does not catch (action    *)
(* DevelopmentsFault).                                                     *)
(***************************************************************************)
EXTENDS Integers, Sequences, FiniteSets, Bags

VARIABLES movements, prices, pc, result

(* the quote fetch: the Investment table, the base currency of Settings,  *)
(* the InvestmentPrice table, the position of fetch_quotes, its argument, *)
(* the investments left to process, the result list, the cache of the     *)
(* JustETF provider, what the last fetch of one investment did, and the   *)
(* number of requests served                                              *)
VARIABLES investment_table, base_currency, store, fpc, investment_ids, pending, results,
          cache, last_fetch, requests

(* one call of CurrencyConverter.convert: its arguments with the answer   *)
(* of the rate service, and what it returned                               *)
VARIABLES convert_call, convert_return

(* the calls made on one JustETFProvider, in their order; the answer of   *)
(* DevelopmentViewSet.list; and the position of each of the requests that  *)
(* store a quote at the same time                                          *)
VARIABLES provider_calls, listing, runs

valuation_vars == <<movements, prices, pc, result>>

provider_vars == <<provider_calls>>

list_vars == <<listing>>

run_vars == <<runs>>

convert_vars == <<convert_call, convert_return>>

fetch_vars == <<investment_table, base_currency, store, fpc, investment_ids, pending,
                results, cache, last_fetch, requests>>

vars == <<valuation_vars, fetch_vars, convert_vars, provider_vars, list_vars, run_vars>>

----------------------------------------------------------------------------
(* Bounds of the model *)

NumInvestments == 2
MaxDate == 3
MaxQuantity == 2
MaxMovements == 2
MaxPrices == 1

(* Program constants: the seeded ActionType ids *)
Buy == 1
Sell == 2
Payout == 3

Investments == 1..NumInvestments
Dates == 1..MaxDate
Actions == {Buy, Sell, Payout}
Quantities == 0..MaxQuantity
(* signed amounts: negative is a cash outflow *)
Amounts == {-2, 3}
(* quoted prices differ from every trade-implied price of the model *)
QuotePrices == {5}

None == <<>>

----------------------------------------------------------------------------
(* Decimal arithmetic *)

AbsInt(x) == IF x < 0 THEN -x ELSE x

RECURSIVE Gcd(_, _)
Gcd(a, b) == IF b = 0 THEN a ELSE Gcd(b, a % b)

(* the decimal n/d, d # 0, in lowest terms *)
Dec(n, d) ==
    LET g == Gcd(AbsInt(n), AbsInt(d))
        s == IF d < 0 THEN -1 ELSE 1
    IN  <<(s * n) \div g, (s * d) \div g>>

Decimal(n) == <<n, 1>>

DecAdd(a, b) == Dec(a[1] * b[2] + b[1] * a[2], a[2] * b[2])

DecMul(a, b) == Dec(a[1] * b[1], a[2] * b[2])

DecDivInt(a, k) == Dec(a[1], a[2] * k)

(* Abs(F("amount") / F("quantity")) of one row; NULL when the database    *)
(* yields NULL for a division by zero                                      *)
AbsAmountPerQuantity(m) ==
    IF m.quantity = 0 THEN None
    ELSE Dec(AbsInt(m.amount), AbsInt(m.quantity))

----------------------------------------------------------------------------
(* The tables *)

(* a Buy is a cash outflow, a Sell or a Payout a cash inflow *)
MovementRows ==
    {m \in [investment : Investments, date : Dates, action : Actions,
            quantity : Quantities, amount : Amounts] :
        (m.action = Buy) <=> (m.amount < 0)}

PriceRows ==
    [investment : Investments, date : Dates, price : {Decimal(p) : p \in QuotePrices}]

RECURSIVE LedgersOfSize(_)
LedgersOfSize(n) ==
    IF n = 0 THEN {EmptyBag}
    ELSE {b (+) SetToBag({m}) : b \in LedgersOfSize(n - 1), m \in MovementRows}

Ledgers == UNION {LedgersOfSize(n) : n \in 0..MaxMovements}

(* price stores with at most one row per (investment, date) *)
PriceStores ==
    {P \in SUBSET PriceRows :
        /\ Cardinality(P) <= MaxPrices
        /\ \A p, q \in P : (p.investment = q.investment /\ p.date = q.date) => p = q}

----------------------------------------------------------------------------
(* SQL aggregates over the rows of a table *)

(* Sum("quantity") over the rows S of the table M (a non-empty group),    *)
(* each row counted with its multiplicity                                  *)
RECURSIVE SumQuantity(_, _)
SumQuantity(S, M) ==
    IF S = {} THEN 0
    ELSE LET m == CHOOSE x \in S : TRUE
         IN  CopiesIn(m, M) * m.quantity + SumQuantity(S \ {m}, M)

(* number of rows of S in M whose implied price is not NULL *)
RECURSIVE CountPrices(_, _)
CountPrices(S, M) ==
    IF S = {} THEN 0
    ELSE LET m == CHOOSE x \in S : TRUE
         IN  (IF AbsAmountPerQuantity(m) = None THEN 0 ELSE CopiesIn(m, M))
             + CountPrices(S \ {m}, M)

(* sum of the non-NULL implied prices of the rows S of M *)
RECURSIVE SumPrices(_, _)
SumPrices(S, M) ==
    IF S = {} THEN Decimal(0)
    ELSE LET m == CHOOSE x \in S : TRUE
             rest == SumPrices(S \ {m}, M)
         IN  IF AbsAmountPerQuantity(m) = None THEN rest
             ELSE DecAdd(DecMul(Decimal(CopiesIn(m, M)), AbsAmountPerQuantity(m)), rest)

RECURSIVE SumAmount(_, _)
SumAmount(S, M) ==
    IF S = {} THEN 0
    ELSE LET m == CHOOSE x \in S : TRUE
         IN  CopiesIn(m, M) * m.amount + SumAmount(S \ {m}, M)

(* variant: the amount-weighted price Abs(Sum(amount)) / Sum(quantity) *)
AvgPriceAmountWeighted(S, M) ==
    IF SumQuantity(S, M) = 0 THEN None
    ELSE Dec(AbsInt(SumAmount(S, M)), SumQuantity(S, M))

(* Avg(Abs(F("amount") / F("quantity"))): NULL values are skipped, NULL   *)
(* when nothing is left                                                    *)
AvgPrice(S, M) ==
    IF CountPrices(S, M) = 0 THEN None
    ELSE DecDivInt(SumPrices(S, M), CountPrices(S, M))

----------------------------------------------------------------------------
(* The queries of developments() *)

MovementKeys(M) == {<<m.investment, m.date>> : m \in BagToSet(M)}

GroupRows(M, i, d) == {m \in BagToSet(M) : m.investment = i /\ m.date = d}

transaction_price(M, i, d) == AvgPrice(GroupRows(M, i, d), M)

transaction_days(M) ==
    {[investment |-> k[1], date |-> k[2],
      transaction_price |-> transaction_price(M, k[1], k[2])] : k \in MovementKeys(M)}

quote_days(P) == P

movement_groups(M, action) ==
    LET rows == {m \in BagToSet(M) : m.action = action}
    IN  {[investment |-> k[1], date |-> k[2],
          quantity |-> SumQuantity({m \in rows : m.investment = k[1] /\ m.date = k[2]}, M)] :
            k \in {<<m.investment, m.date>> : m \in rows}}

movement_groups_buy(M) == movement_groups(M, Buy)

movement_groups_sell(M) == movement_groups(M, Sell)

(* the dict (investment, date) -> price *)
quote_prices(P) ==
    [k \in {<<q.investment, q.date>> : q \in quote_days(P)} |->
        (CHOOSE q \in quote_days(P) : q.investment = k[1] /\ q.date = k[2]).price]

KeyLess(a, b) == a[1] < b[1] \/ (a[1] = b[1] /\ a[2] < b[2])

(* variant: sorted by date first, then by investment *)
RECURSIVE SortedByDate(_)
SortedByDate(S) ==
    IF S = {} THEN <<>>
    ELSE LET k == CHOOSE x \in S : \A y \in S \ {x} : KeyLess(<<x[2], x[1]>>, <<y[2], y[1]>>)
         IN  <<k>> \o SortedByDate(S \ {k})

RECURSIVE Sorted(_)
Sorted(S) ==
    IF S = {} THEN <<>>
    ELSE LET k == CHOOSE x \in S : \A y \in S \ {x} : KeyLess(x, y)
         IN  <<k>> \o Sorted(S \ {k})

all_dates(M, P) ==
    Sorted({<<td.investment, td.date>> : td \in transaction_days(M)}
           \cup {<<qd.investment, qd.date>> : qd \in quote_days(P)})

(* .aggregate(q=Sum("quantity"))["q"] over the per-date groups G *)
RECURSIVE SumGroups(_)
SumGroups(G) ==
    IF G = {} THEN 0
    ELSE LET g == CHOOSE x \in G : TRUE
         IN  g.quantity + SumGroups(G \ {g})

(* variant: date__lt instead of date__lte *)
quantity_bought_before(M, i, d) ==
    LET G == {g \in movement_groups_buy(M) : g.investment = i /\ g.date < d}
    IN  IF G = {} THEN 0 ELSE SumGroups(G)

(* variant: the filter on the investment is missing *)
quantity_sold_of_all(M, i, d) ==
    LET G == {g \in movement_groups_sell(M) : g.date <= d}
    IN  IF G = {} THEN 0 ELSE SumGroups(G)

(* the aggregate is None over no groups, and "None or 0" is 0 *)
quantity_bought(M, i, d) ==
    LET G == {g \in movement_groups_buy(M) : g.investment = i /\ g.date <= d}
    IN  IF G = {} THEN 0 ELSE SumGroups(G)

quantity_sold(M, i, d) ==
    LET G == {g \in movement_groups_sell(M) : g.investment = i /\ g.date <= d}
    IN  IF G = {} THEN 0 ELSE SumGroups(G)

(* variant: the day's transaction price is preferred to the quote *)
ResolvePriceTradeFirst(M, P, last, i, d) ==
    LET trans == IF <<i, d>> \in MovementKeys(M) THEN transaction_price(M, i, d) ELSE None
        quote == IF trans = None /\ <<i, d>> \in DOMAIN quote_prices(P)
                 THEN quote_prices(P)[<<i, d>>] ELSE trans
    IN  IF quote = None THEN last[i] ELSE quote

(* variant: one last known price shared by all investments *)
ResolvePriceSharedLast(M, P, last, i, d) ==
    LET quote == IF <<i, d>> \in DOMAIN quote_prices(P)
                 THEN quote_prices(P)[<<i, d>>] ELSE None
        trans == IF quote = None /\ <<i, d>> \in MovementKeys(M)
                 THEN transaction_price(M, i, d) ELSE quote
        known == {j \in Investments : last[j] # None}
    IN  IF trans # None THEN trans
        ELSE IF known = {} THEN None
        ELSE last[CHOOSE j \in known : \A h \in known : h <= j]

(* price = quote, else the day's transaction price, else the last known   *)
(* price of the investment (None when there is none)                       *)
ResolvePrice(M, P, last, i, d) ==
    LET quote == IF <<i, d>> \in DOMAIN quote_prices(P)
                 THEN quote_prices(P)[<<i, d>>] ELSE None
        trans == IF quote = None /\ <<i, d>> \in MovementKeys(M)
                 THEN transaction_price(M, i, d) ELSE quote
    IN  IF trans = None THEN last[i] ELSE trans

(* variant: the product rounded down to a whole number *)
ValueTruncated(quantity, price) == Decimal((quantity * price[1]) \div price[2])

Value(quantity, price) == DecMul(Decimal(quantity), price)

(* variant: a date on which nothing is held is not emitted *)
RECURSIVE BuildDevelopmentsHeld(_, _, _, _, _, _)
BuildDevelopmentsHeld(M, P, dates, k, devs, last) ==
    IF k > Len(dates) THEN devs
    ELSE LET i == dates[k][1]
             d == dates[k][2]
             quantity == quantity_bought(M, i, d) - quantity_sold(M, i, d)
             price == ResolvePrice(M, P, last, i, d)
         IN  IF price = None
             THEN BuildDevelopmentsHeld(M, P, dates, k + 1, devs, last)
             ELSE BuildDevelopmentsHeld(M, P, dates, k + 1,
                     IF quantity = 0 THEN devs
                     ELSE Append(devs, [investment |-> i, date |-> d, price |-> price,
                                        quantity |-> quantity,
                                        value |-> Value(quantity, price)]),
                     [last EXCEPT ![i] = price])

(* the loop over all_dates from position k on *)
RECURSIVE BuildDevelopments(_, _, _, _, _, _)
BuildDevelopments(M, P, dates, k, devs, last) ==
    IF k > Len(dates) THEN devs
    ELSE LET i == dates[k][1]
             d == dates[k][2]
             quantity == quantity_bought(M, i, d) - quantity_sold(M, i, d)
             price == ResolvePrice(M, P, last, i, d)
         IN  IF price = None
             THEN BuildDevelopments(M, P, dates, k + 1, devs, last)
             ELSE BuildDevelopments(M, P, dates, k + 1,
                     Append(devs, [investment |-> i, date |-> d, price |-> price,
                                   quantity |-> quantity,
                                   value |-> Value(quantity, price)]),
                     [last EXCEPT ![i] = price])

developments(M, P) ==
    BuildDevelopments(M, P, all_dates(M, P), 1, <<>>, [i \in Investments |-> None])

(* a division by zero in the transaction_days query *)
DivisionByZero(M) == \E m \in BagToSet(M) : m.quantity = 0

----------------------------------------------------------------------------
(* The quote fetch: bounds and value sets *)

MaxQuotes == 3
MaxQuoteDate == 2
MaxRequests == 1
MaxStoredPrices == 1

(* no conversion_date given: convert() then asks for the latest rate *)
NoDate == 0

(* result.error of a successful fetch *)
NoError == "None"

Currencies == {"EUR", "USD"}

(* Investment.ticker_symbol and Investment.quote_provider; the empty      *)
(* string stands for both falsy values, "" and NULL                        *)
TickerSymbols == {"", "T"}
QuoteProviderNames == {"", "justetf", "openbb_yahoo", "other"}

(* the keys of QuoteFetcherService.providers *)
providers == {"openbb_yahoo", "justetf"}

InvestmentRows == [ticker_symbol : TickerSymbols, quote_provider : QuoteProviderNames]

(* ids a caller may pass: those of the Investment table and one more *)
InvestmentIds == 1..(NumInvestments + 1)

QuoteDates == 1..MaxQuoteDate
(* the raw values of the provider's series, and the amount the rate       *)
(* service answers with: different from each other and from the price of  *)
(* a row stored before any fetch                                          *)
QuoteValues == {10}
ConvertedAmounts == {7}
StoredPrices == {5}

(* rows of the InvestmentPrice table; the table is a bag of them *)
StoreRows ==
    [investment : Investments, date : QuoteDates,
     price : {Decimal(p) : p \in StoredPrices}, source : {"manual"}]

(* the tables of at most MaxStoredPrices rows, one row per key at most *)
InitialStores ==
    {SetToBag(S) : S \in {T \in SUBSET StoreRows :
        /\ Cardinality(T) <= MaxStoredPrices
        /\ \A a, b \in T : (a.investment = b.investment /\ a.date = b.date) => a = b}}

(* what the JustETF API answers to one request: an error, or a JSON       *)
(* document with a series of dated values                                 *)
SeriesEntries == [date : QuoteDates, value : QuoteValues]

RECURSIVE SeriesOfLen(_)
SeriesOfLen(n) ==
    IF n = 0 THEN {<<>>}
    ELSE {Append(s, e) : s \in SeriesOfLen(n - 1), e \in SeriesEntries}

AllSeries == UNION {SeriesOfLen(n) : n \in 0..MaxQuotes}

NoResponse == [ok |-> FALSE, series |-> <<>>]

UpstreamResponses == {NoResponse} \cup {[ok |-> TRUE, series |-> s] : s \in AllSeries}

(* what the rate service answers to one request: the converted amount, a  *)
(* document without the target currency, a failed request (transport      *)
(* error, HTTP error status, body that is not JSON), or a JSON document    *)
(* of another shape (not an object, or a rate that is not a number)        *)
RateResponses ==
    {[kind |-> "rates", amount |-> Decimal(a)] : a \in ConvertedAmounts}
    \cup {[kind |-> k, amount |-> None] : k \in {"no_rates", "request_error", "malformed"}}

----------------------------------------------------------------------------
(* CurrencyConverter.convert: the value returned (None when there is      *)
(* none), whether an exception left the call, and the requests sent to the *)
(* rate service                                                            *)

(* variant: the rate service is asked even when the currencies are equal *)
convertAlways(amount, from_currency, to_currency, conversion_date, response) ==
    LET request == [latest |-> conversion_date = NoDate, date |-> conversion_date,
                    amount |-> amount, from |-> from_currency, to |-> to_currency]
    IN  IF response.kind = "rates"
        THEN [value |-> response.amount, raised |-> FALSE, lookups |-> <<request>>]
        ELSE IF response.kind = "malformed"
        THEN [value |-> None, raised |-> TRUE, lookups |-> <<request>>]
        ELSE [value |-> None, raised |-> FALSE, lookups |-> <<request>>]

convert(amount, from_currency, to_currency, conversion_date, response) ==
    IF from_currency = to_currency
    THEN [value |-> amount, raised |-> FALSE, lookups |-> <<>>]
    ELSE LET request == [latest |-> conversion_date = NoDate, date |-> conversion_date,
                         amount |-> amount, from |-> from_currency, to |-> to_currency]
         IN  IF response.kind = "rates"
             THEN [value |-> response.amount, raised |-> FALSE, lookups |-> <<request>>]
             ELSE IF response.kind = "malformed"
             THEN [value |-> None, raised |-> TRUE, lookups |-> <<request>>]
             ELSE [value |-> None, raised |-> FALSE, lookups |-> <<request>>]

----------------------------------------------------------------------------
(* JustETFProvider *)

Cached(C, isin) == \E c \in C : c.isin = isin

(* variant: the document of a request is returned and not kept *)
fetch_data_uncached(C, isin, upstream) ==
    IF Cached(C, isin)
    THEN [data |-> (CHOOSE c \in C : c.isin = isin).data, found |-> TRUE,
          cache |-> C, requested |-> FALSE]
    ELSE IF upstream.ok
    THEN [data |-> upstream.series, found |-> TRUE, cache |-> C, requested |-> TRUE]
    ELSE [data |-> <<>>, found |-> FALSE, cache |-> C, requested |-> TRUE]

(* _fetch_data: the cached document, else the answer to a request, which  *)
(* is cached unless it is an error                                         *)
fetch_data(C, isin, upstream) ==
    IF Cached(C, isin)
    THEN [data |-> (CHOOSE c \in C : c.isin = isin).data, found |-> TRUE,
          cache |-> C, requested |-> FALSE]
    ELSE IF upstream.ok
    THEN [data |-> upstream.series, found |-> TRUE,
          cache |-> C \cup {[isin |-> isin, data |-> upstream.series]}, requested |-> TRUE]
    ELSE [data |-> <<>>, found |-> FALSE, cache |-> C, requested |-> TRUE]

(* the QuoteData of the entries of a series, in the currency of the       *)
(* provider (EUR as QuoteFetcherService constructs it)                     *)
QuotesOf(series) ==
    [k \in 1..Len(series) |->
        [date |-> series[k].date, price |-> Decimal(series[k].value),
         currency |-> "EUR", source |-> "justetf"]]

get_quotes(C, ticker_symbol, upstream) ==
    LET f == fetch_data(C, ticker_symbol, upstream)
    IN  [quotes |-> IF f.found THEN QuotesOf(f.data) ELSE <<>>,
         cache |-> f.cache, requested |-> f.requested]

(* get_quote: the first entry of the series under the date asked for.    *)
(* The document of the model carries the series only, so a call without a *)
(* date finds no latestQuote and returns None.                             *)
get_quote(C, ticker, quote_date, upstream) ==
    LET f == fetch_data(C, ticker, upstream)
        entries == SelectSeq(f.data, LAMBDA entry : entry.date = quote_date)
    IN  [quote |-> IF ~f.found \/ quote_date = NoDate \/ entries = <<>>
                   THEN None ELSE QuotesOf(entries)[1],
         document |-> f.data, found |-> f.found,
         cache |-> f.cache, requested |-> f.requested]

----------------------------------------------------------------------------
(* InvestmentPrice.objects.update_or_create(investment, date, defaults) *)

RECURSIVE BagSize(_, _)
BagSize(B, S) ==
    IF S = {} THEN 0
    ELSE LET r == CHOOSE x \in S : TRUE IN CopiesIn(r, B) + BagSize(B, S \ {r})

Matching(S, i, d) == {r \in BagToSet(S) : r.investment = i /\ r.date = d}

(* variant: a row is created without a lookup of the key *)
create(S, i, d, price, source) ==
    [store |-> S (+) SetToBag({[investment |-> i, date |-> d, price |-> price,
                                source |-> source]}),
     raised |-> FALSE]

(* one matching row is updated, none is created; more than one raises    *)
(* MultipleObjectsReturned                                                *)
update_or_create(S, i, d, price, source) ==
    LET rows == Matching(S, i, d)
        row == [investment |-> i, date |-> d, price |-> price, source |-> source]
    IN  IF BagSize(S, rows) = 0
        THEN [store |-> S (+) SetToBag({row}), raised |-> FALSE]
        ELSE IF BagSize(S, rows) = 1
        THEN [store |-> (S (-) SetToBag(rows)) (+) SetToBag({row}), raised |-> FALSE]
        ELSE [store |-> S, raised |-> TRUE]

----------------------------------------------------------------------------
(* QuoteFetcherService *)

(* str(e) of the exceptions that fetch_quotes_for_investment catches *)
AttributeErrorText == "'OpenBBYahooProvider' object has no attribute 'get_quotes'"
ConvertErrorText == "exception raised by convert"
MultipleObjectsText == "get() returned more than one InvestmentPrice"

QuoteFetchResult(investment_id, success, error) ==
    [investment_id |-> investment_id, success |-> success, error |-> error]

(* variant: the provider is validated before the ticker symbol *)
configuration_error_provider_first(investment) ==
    IF investment.quote_provider = "" THEN "No quote provider configured"
    ELSE IF investment.quote_provider \notin providers
    THEN "Unknown provider: " \o investment.quote_provider
    ELSE IF investment.ticker_symbol = "" THEN "No ticker symbol configured"
    ELSE NoError

(* the validation of the configuration of an investment *)
configuration_error(investment) ==
    IF investment.ticker_symbol = "" THEN "No ticker symbol configured"
    ELSE IF investment.quote_provider = "" THEN "No quote provider configured"
    ELSE IF investment.quote_provider \notin providers
    THEN "Unknown provider: " \o investment.quote_provider
    ELSE NoError

(* variant: an empty answer of the provider is processed like any other *)
NoQuoteDataIgnored(quotes_data) == FALSE

(* "if not quotes_data" *)
NoQuoteData(quotes_data) == quotes_data = <<>>

(* the converter is needed for a quote in another currency *)
NeedsConversion(quote_data, base) == quote_data.currency # base

(* variant: every quote goes through the converter *)
ConvertedPriceOfAll(quote_data, base, response) ==
    LET c == convert(quote_data.price, quote_data.currency, base, quote_data.date, response)
    IN  [called |-> TRUE, conversion_date |-> quote_data.date,
         converted |-> c.value, value |-> c.value, raised |-> c.raised]

(* variant: the rate of the day of the fetch is asked for *)
ConvertedPriceLatest(quote_data, base, response) ==
    IF NeedsConversion(quote_data, base)
    THEN LET c == convert(quote_data.price, quote_data.currency, base, NoDate, response)
         IN  [called |-> TRUE, conversion_date |-> NoDate,
              converted |-> c.value, value |-> c.value, raised |-> c.raised]
    ELSE [called |-> FALSE, conversion_date |-> NoDate,
          converted |-> None, value |-> quote_data.price, raised |-> FALSE]

(* one quote: whether the converter is called, with which date, what it   *)
(* returns, and price_in_base_currency: the price of the provider, or      *)
(* what convert() returned                                                 *)
ConvertedPrice(quote_data, base, response) ==
    IF NeedsConversion(quote_data, base)
    THEN LET c == convert(quote_data.price, quote_data.currency, base, quote_data.date, response)
         IN  [called |-> TRUE, conversion_date |-> quote_data.date,
              converted |-> c.value, value |-> c.value, raised |-> c.raised]
    ELSE [called |-> FALSE, conversion_date |-> NoDate,
          converted |-> None, value |-> quote_data.price, raised |-> FALSE]

(* the record of one call of the converter *)
ConverterCall(quote_data, base, p) ==
    [amount |-> quote_data.price, from_currency |-> quote_data.currency,
     to_currency |-> base, conversion_date |-> p.conversion_date,
     value |-> p.converted, raised |-> p.raised]

(* the loop of the atomic block from quote k on: S is the table as the    *)
(* transaction sees it, calls the calls of the converter so far; the n-th  *)
(* call is answered by responses[n]                                        *)
RECURSIVE store_quotes(_, _, _, _, _, _, _)
store_quotes(investment_id, quotes_data, base, responses, k, S, calls) ==
    IF k > Len(quotes_data) THEN [store |-> S, calls |-> calls, error |-> NoError]
    ELSE LET quote_data == quotes_data[k]
             response == responses[Len(calls) + 1]
             p == ConvertedPrice(quote_data, base, response)
             called == IF p.called THEN Append(calls, ConverterCall(quote_data, base, p))
                       ELSE calls
         IN  IF p.raised THEN [store |-> S, calls |-> called, error |-> ConvertErrorText]
             ELSE IF p.value = None
             THEN store_quotes(investment_id, quotes_data, base, responses, k + 1, S, called)
             ELSE LET u == update_or_create(S, investment_id, quote_data.date, p.value,
                                            quote_data.source)
                  IN  IF u.raised
                      THEN [store |-> S, calls |-> called, error |-> MultipleObjectsText]
                      ELSE store_quotes(investment_id, quotes_data, base, responses, k + 1,
                                        u.store, called)

(* what one fetch did: the investment, whether get_quotes of a provider   *)
(* ran, whether it sent a request, the quotes it returned, the calls of    *)
(* the converter, and the table before the fetch                           *)
Fetched(investment_id, provider_called, requested, quotes_data, calls, S) ==
    [investment_id |-> investment_id, provider_called |-> provider_called,
     requested |-> requested, quotes |-> quotes_data, calls |-> calls, before |-> S]

NoFetch == Fetched(0, FALSE, FALSE, <<>>, <<>>, EmptyBag)

(* variant: every upsert is committed on its own, without the atomic block *)
fetch_quotes_for_investment_autocommit(investment_id, investment, base, S, C, upstream, responses) ==
    IF configuration_error(investment) # NoError
    THEN [result |-> QuoteFetchResult(investment_id, FALSE, configuration_error(investment)),
          store |-> S, cache |-> C,
          last |-> Fetched(investment_id, FALSE, FALSE, <<>>, <<>>, S)]
    ELSE IF investment.quote_provider = "openbb_yahoo"
    THEN [result |-> QuoteFetchResult(investment_id, FALSE, AttributeErrorText),
          store |-> S, cache |-> C,
          last |-> Fetched(investment_id, FALSE, FALSE, <<>>, <<>>, S)]
    ELSE LET g == get_quotes(C, investment.ticker_symbol, upstream)
             tx == store_quotes(investment_id, g.quotes, base, responses, 1, S, <<>>)
         IN  IF NoQuoteData(g.quotes)
             THEN [result |-> QuoteFetchResult(investment_id, FALSE,
                                               "No quote data returned from provider"),
                   store |-> S, cache |-> g.cache,
                   last |-> Fetched(investment_id, TRUE, g.requested, g.quotes, <<>>, S)]
             ELSE IF tx.error # NoError
             THEN [result |-> QuoteFetchResult(investment_id, FALSE, tx.error),
                   store |-> tx.store, cache |-> g.cache,
                   last |-> Fetched(investment_id, TRUE, g.requested, g.quotes, tx.calls, S)]
             ELSE [result |-> QuoteFetchResult(investment_id, TRUE, NoError),
                   store |-> tx.store, cache |-> g.cache,
                   last |-> Fetched(investment_id, TRUE, g.requested, g.quotes, tx.calls, S)]

(* fetch_quotes_for_investment: the result, the table and the cache       *)
(* afterwards; an exception inside the atomic block rolls the table back   *)
fetch_quotes_for_investment(investment_id, investment, base, S, C, upstream, responses) ==
    IF configuration_error(investment) # NoError
    THEN [result |-> QuoteFetchResult(investment_id, FALSE, configuration_error(investment)),
          store |-> S, cache |-> C,
          last |-> Fetched(investment_id, FALSE, FALSE, <<>>, <<>>, S)]
    ELSE IF investment.quote_provider = "openbb_yahoo"
    THEN [result |-> QuoteFetchResult(investment_id, FALSE, AttributeErrorText),
          store |-> S, cache |-> C,
          last |-> Fetched(investment_id, FALSE, FALSE, <<>>, <<>>, S)]
    ELSE LET g == get_quotes(C, investment.ticker_symbol, upstream)
             tx == store_quotes(investment_id, g.quotes, base, responses, 1, S, <<>>)
         IN  IF NoQuoteData(g.quotes)
             THEN [result |-> QuoteFetchResult(investment_id, FALSE,
                                               "No quote data returned from provider"),
                   store |-> S, cache |-> g.cache,
                   last |-> Fetched(investment_id, TRUE, g.requested, g.quotes, <<>>, S)]
             ELSE IF tx.error # NoError
             THEN [result |-> QuoteFetchResult(investment_id, FALSE, tx.error),
                   store |-> S, cache |-> g.cache,
                   last |-> Fetched(investment_id, TRUE, g.requested, g.quotes, tx.calls, S)]
             ELSE [result |-> QuoteFetchResult(investment_id, TRUE, NoError),
                   store |-> tx.store, cache |-> g.cache,
                   last |-> Fetched(investment_id, TRUE, g.requested, g.quotes, tx.calls, S)]

(* the investments fetch_quotes processes: those of the given ids, or,    *)
(* when no id is given, those with a quote provider                        *)
selected_investments(ids, table) ==
    IF ids.given /\ ids.list # {}
    THEN {i \in Investments : i \in ids.list}
    ELSE {i \in Investments : table[i].quote_provider # ""}

(* a set of ids in ascending order *)
RECURSIVE Ascending(_)
Ascending(S) ==
    IF S = {} THEN <<>>
    ELSE LET i == CHOOSE x \in S : \A y \in S : x <= y
         IN  <<i>> \o Ascending(S \ {i})

(* variant: the loop of fetch_quotes ends at the first failure *)
remaining_until_failure(investments, fetch_result) ==
    IF fetch_result.success THEN Tail(investments) ELSE <<>>

(* the loop of fetch_quotes goes on with the next investment *)
remaining(investments, fetch_result) == Tail(investments)

----------------------------------------------------------------------------
(* The state machine of the quote fetch: requests POST quotes/fetch, one  *)
(* after the other; each constructs its own QuoteFetcherService            *)

(* the investment_ids of a request: absent, or a list of ids *)
RequestedIds ==
    {[given |-> FALSE, list |-> {}]} \cup {[given |-> TRUE, list |-> L] : L \in SUBSET InvestmentIds}

(* the number of quotes of the list that need the converter *)
NumConversions(quotes_data, base) ==
    Cardinality({k \in 1..Len(quotes_data) : NeedsConversion(quotes_data[k], base)})

ProviderIdle == provider_calls = <<>>

NoListing == [called |-> FALSE, start_date |-> NoDate, end_date |-> NoDate, rows |-> <<>>]

ListIdle == listing = NoListing

RunsIdle == runs = <<>>

ValuationIdle ==
    /\ movements = EmptyBag
    /\ prices = {}
    /\ pc = "start"
    /\ result = <<>>

ConvertIdle ==
    /\ convert_call = [amount |-> None, from_currency |-> "EUR", to_currency |-> "EUR",
                       conversion_date |-> NoDate,
                       response |-> [kind |-> "request_error", amount |-> None]]
    /\ convert_return = [returned |-> FALSE, value |-> None, raised |-> FALSE,
                         lookups |-> <<>>]

FetchIdle ==
    /\ investment_table = [i \in Investments |-> [ticker_symbol |-> "", quote_provider |-> ""]]
    /\ base_currency = "EUR"
    /\ store = EmptyBag
    /\ fpc = "idle"
    /\ investment_ids = [given |-> FALSE, list |-> {}]
    /\ pending = <<>>
    /\ results = <<>>
    /\ cache = {}
    /\ last_fetch = NoFetch
    /\ requests = 0

InitFetch ==
    /\ investment_table \in [Investments -> InvestmentRows]
    /\ base_currency \in Currencies
    /\ store \in InitialStores
    /\ fpc = "idle"
    /\ investment_ids = [given |-> FALSE, list |-> {}]
    /\ pending = <<>>
    /\ results = <<>>
    /\ cache = {}
    /\ last_fetch = NoFetch
    /\ requests = 0
    /\ ValuationIdle
    /\ ConvertIdle
    /\ ProviderIdle
    /\ ListIdle
    /\ RunsIdle


(* variant: one provider, with its cache, serves every request *)
SharedCache(C) == C

(* the cache of the JustETFProvider that QuoteFetcherService constructs *)
NewCache(C) == {}

(* QuoteViewSet.fetch constructs the service, whose provider has an empty *)
(* cache, and fetch_quotes selects the investments; at most limit requests *)
(* are served                                                              *)
Fetch(limit) ==
    /\ fpc \in {"idle", "returned"}
    /\ requests < limit
    /\ \E ids \in RequestedIds :
        /\ investment_ids' = ids
        /\ pending' = Ascending(selected_investments(ids, investment_table))
    /\ results' = <<>>
    /\ cache' = NewCache(cache)
    /\ last_fetch' = NoFetch
    /\ fpc' = "fetching"
    /\ requests' = requests + 1
    /\ UNCHANGED <<investment_table, base_currency, store>>
    /\ UNCHANGED <<valuation_vars, convert_vars, provider_vars, list_vars, run_vars>>

FetchQuotes == Fetch(MaxRequests)

(* one turn of the loop of fetch_quotes: fetch_quotes_for_investment for  *)
(* the next investment, with what the provider's API and the rate service  *)
(* answer at that moment                                                   *)
FetchQuotesForInvestment ==
    /\ fpc = "fetching"
    /\ pending # <<>>
    /\ LET investment_id == Head(pending)
           investment == investment_table[investment_id]
           asks == /\ configuration_error(investment) = NoError
                   /\ investment.quote_provider = "justetf"
                   /\ ~Cached(cache, investment.ticker_symbol)
       IN  \E upstream \in IF asks THEN UpstreamResponses ELSE {NoResponse} :
               LET n == IF configuration_error(investment) = NoError
                           /\ investment.quote_provider = "justetf"
                        THEN NumConversions(get_quotes(cache, investment.ticker_symbol,
                                                       upstream).quotes, base_currency)
                        ELSE 0
               IN  \E responses \in [1..n -> RateResponses] :
                       LET f == fetch_quotes_for_investment(investment_id, investment,
                                    base_currency, store, cache, upstream, responses)
                       IN  /\ store' = f.store
                           /\ cache' = f.cache
                           /\ last_fetch' = f.last
                           /\ results' = Append(results, f.result)
                           /\ pending' = remaining(pending, f.result)
    /\ UNCHANGED <<investment_table, base_currency, fpc, investment_ids, requests>>
    /\ UNCHANGED <<valuation_vars, convert_vars, provider_vars, list_vars, run_vars>>

(* fetch_quotes returns the result list *)
FetchQuotesReturn ==
    /\ fpc = "fetching"
    /\ pending = <<>>
    /\ fpc' = "returned"
    /\ UNCHANGED <<investment_table, base_currency, store, investment_ids, pending, results,
                   cache, last_fetch, requests>>
    /\ UNCHANGED <<valuation_vars, convert_vars, provider_vars, list_vars, run_vars>>

NextFetch == FetchQuotes \/ FetchQuotesForInvestment \/ FetchQuotesReturn

SpecFetch == InitFetch /\ [][NextFetch]_vars

----------------------------------------------------------------------------
(* Requests served at the same time: each is in the atomic block of       *)
(* fetch_quotes_for_investment and stores one quote of investment 1; the   *)
(* lookup and the write of update_or_create are separate statements of the *)
(* database, and what a transaction wrote is in the table at its commit    *)

NumRuns == 2

Runs == 1..NumRuns

RunPrices == {Decimal(p) : p \in QuoteValues \cup ConvertedAmounts}

RunRow(r) ==
    [investment |-> 1, date |-> runs[r].date, price |-> runs[r].price, source |-> "justetf"]

InitRace ==
    /\ investment_table = [i \in Investments |-> [ticker_symbol |-> "T",
                                                   quote_provider |-> "justetf"]]
    /\ base_currency = "EUR"
    /\ store \in InitialStores
    /\ fpc = "idle"
    /\ investment_ids = [given |-> FALSE, list |-> {}]
    /\ pending = <<>>
    /\ results = <<>>
    /\ cache = {}
    /\ last_fetch = NoFetch
    /\ requests = 0
    /\ runs \in [Runs -> [pc : {"lookup"}, date : QuoteDates, price : RunPrices,
                          matched : {0}, stale : {FALSE}]]
    /\ ValuationIdle
    /\ ConvertIdle
    /\ ProviderIdle
    /\ ListIdle

(* the lookup of update_or_create: the rows under the key *)
Lookup(r) ==
    /\ runs[r].pc = "lookup"
    /\ runs' = [runs EXCEPT ![r].matched = BagSize(store, Matching(store, 1, runs[r].date)),
                            ![r].pc = "write"]
    /\ UNCHANGED <<investment_table, base_currency, store, fpc, investment_ids, pending,
                   results, cache, last_fetch, requests>>
    /\ UNCHANGED <<valuation_vars, convert_vars, provider_vars, list_vars>>

(* the write of update_or_create: an INSERT when the lookup found no row, *)
(* an UPDATE of the row it found, MultipleObjectsReturned when it found    *)
(* more than one                                                           *)
Write(r) ==
    /\ runs[r].pc = "write"
    /\ runs' = [runs EXCEPT ![r].pc = IF runs[r].matched > 1 THEN "failed" ELSE "commit"]
    /\ UNCHANGED <<investment_table, base_currency, store, fpc, investment_ids, pending,
                   results, cache, last_fetch, requests>>
    /\ UNCHANGED <<valuation_vars, convert_vars, provider_vars, list_vars>>

(* the write on a database that admits one writing transaction at a time  *)
(* (SQLite), when another transaction has written since the lookup:        *)
(* "database is locked", and the fetch fails                               *)
WriteLocked(r) ==
    /\ runs[r].pc = "write"
    /\ runs[r].stale \/ \E o \in Runs \ {r} : runs[o].pc = "commit"
    /\ runs' = [runs EXCEPT ![r].pc = "failed"]
    /\ UNCHANGED <<investment_table, base_currency, store, fpc, investment_ids, pending,
                   results, cache, last_fetch, requests>>
    /\ UNCHANGED <<valuation_vars, convert_vars, provider_vars, list_vars>>

(* the atomic block is left and the transaction commits *)
Commit(r) ==
    /\ runs[r].pc = "commit"
    /\ store' = IF runs[r].matched = 0
                THEN store (+) SetToBag({RunRow(r)})
                ELSE (store (-) SetToBag(Matching(store, 1, runs[r].date)))
                     (+) SetToBag({RunRow(r)})
    /\ runs' = [o \in Runs |->
                  IF o = r THEN [runs[o] EXCEPT !.pc = "done"]
                  ELSE IF runs[o].pc = "write" THEN [runs[o] EXCEPT !.stale = TRUE]
                  ELSE runs[o]]
    /\ UNCHANGED <<investment_table, base_currency, fpc, investment_ids, pending,
                   results, cache, last_fetch, requests>>
    /\ UNCHANGED <<valuation_vars, convert_vars, provider_vars, list_vars>>

NextRace == \E r \in Runs : Lookup(r) \/ Write(r) \/ WriteLocked(r) \/ Commit(r)

SpecRace == InitRace /\ [][NextRace]_vars

----------------------------------------------------------------------------
(* One JustETFProvider and the calls made on it *)

MaxCalls == 3

Isins == {"T", "U"}

(* what the API answers in this part: an error, or a document with a      *)
(* series of at most one entry                                             *)
ProviderResponses == {r \in UpstreamResponses : Len(r.series) <= 1}

ProviderCall(method, ticker, f) ==
    [method |-> method, ticker |-> ticker, requested |-> f.requested,
     found |-> f.found, document |-> f.document]

InitProvider ==
    /\ FetchIdle
    /\ ValuationIdle
    /\ ConvertIdle
    /\ ProviderIdle
    /\ ListIdle
    /\ RunsIdle

GetQuote ==
    /\ Len(provider_calls) < MaxCalls
    /\ \E ticker \in Isins, quote_date \in QuoteDates \cup {NoDate},
          upstream \in ProviderResponses :
        LET g == get_quote(cache, ticker, quote_date, upstream)
        IN  /\ cache' = g.cache
            /\ provider_calls' = Append(provider_calls, ProviderCall("get_quote", ticker, g))
    /\ UNCHANGED <<investment_table, base_currency, store, fpc, investment_ids, pending,
                   results, last_fetch, requests>>
    /\ UNCHANGED <<valuation_vars, convert_vars, list_vars, run_vars>>

GetQuotes ==
    /\ Len(provider_calls) < MaxCalls
    /\ \E ticker_symbol \in Isins, upstream \in ProviderResponses :
        LET f == fetch_data(cache, ticker_symbol, upstream)
            g == get_quotes(cache, ticker_symbol, upstream)
        IN  /\ cache' = g.cache
            /\ provider_calls' =
                   Append(provider_calls,
                          ProviderCall("get_quotes", ticker_symbol,
                                       [requested |-> g.requested, found |-> f.found,
                                        document |-> f.data]))
    /\ UNCHANGED <<investment_table, base_currency, store, fpc, investment_ids, pending,
                   results, last_fetch, requests>>
    /\ UNCHANGED <<valuation_vars, convert_vars, list_vars, run_vars>>

NextProvider == GetQuote \/ GetQuotes

SpecProvider == InitProvider /\ [][NextProvider]_vars

----------------------------------------------------------------------------
(* Requests one after the other for one investment that is configured for *)
(* the JustETF provider                                                    *)

MaxRefetches == 2

InitRefetch ==
    /\ investment_table \in
          {t \in [Investments -> InvestmentRows] :
              /\ t[1] = [ticker_symbol |-> "T", quote_provider |-> "justetf"]
              /\ \A i \in Investments \ {1} :
                    t[i] = [ticker_symbol |-> "", quote_provider |-> ""]}
    /\ base_currency \in Currencies
    /\ store \in InitialStores
    /\ fpc = "idle"
    /\ investment_ids = [given |-> FALSE, list |-> {}]
    /\ pending = <<>>
    /\ results = <<>>
    /\ cache = {}
    /\ last_fetch = NoFetch
    /\ requests = 0
    /\ ValuationIdle
    /\ ConvertIdle
    /\ ProviderIdle
    /\ ListIdle
    /\ RunsIdle


FetchQuotesAgain == Fetch(MaxRefetches)

NextRefetch == FetchQuotesAgain \/ FetchQuotesForInvestment \/ FetchQuotesReturn

SpecRefetch == InitRefetch /\ [][NextRefetch]_vars

----------------------------------------------------------------------------
(* One call of CurrencyConverter.convert *)

ConvertAmounts == {Decimal(0), Decimal(10), Dec(1, 3)}

InitConvert ==
    /\ convert_call \in [amount : ConvertAmounts, from_currency : Currencies \cup {"eur"},
                         to_currency : Currencies \cup {"eur"},
                         conversion_date : QuoteDates \cup {NoDate},
                         response : RateResponses]
    /\ convert_return = [returned |-> FALSE, value |-> None, raised |-> FALSE,
                         lookups |-> <<>>]
    /\ ValuationIdle
    /\ FetchIdle
    /\ ProviderIdle
    /\ ListIdle
    /\ RunsIdle


Convert ==
    /\ ~convert_return.returned
    /\ LET c == convert(convert_call.amount, convert_call.from_currency,
                        convert_call.to_currency, convert_call.conversion_date,
                        convert_call.response)
       IN  convert_return' = [returned |-> TRUE, value |-> c.value, raised |-> c.raised,
                              lookups |-> c.lookups]
    /\ UNCHANGED convert_call
    /\ UNCHANGED <<valuation_vars, fetch_vars, provider_vars, list_vars, run_vars>>

NextConvert == Convert

SpecConvert == InitConvert /\ [][NextConvert]_vars

----------------------------------------------------------------------------
(* The state machine: the two tables, and one call of developments() *)

Init ==
    /\ movements \in Ledgers
    /\ prices \in PriceStores
    /\ pc = "start"
    /\ result = <<>>
    /\ FetchIdle
    /\ ConvertIdle
    /\ ProviderIdle
    /\ ListIdle
    /\ RunsIdle


(* developments() returns; the database yields NULL for x / 0 *)
Developments ==
    /\ pc = "start"
    /\ result' = developments(movements, prices)
    /\ pc' = "done"
    /\ UNCHANGED <<movements, prices>>
    /\ UNCHANGED <<fetch_vars, convert_vars, provider_vars, list_vars, run_vars>>

(* developments() raises: the database faults on x / 0 *)
DevelopmentsFault ==
    /\ pc = "start"
    /\ DivisionByZero(movements)
    /\ pc' = "error"
    /\ UNCHANGED <<movements, prices, result>>
    /\ UNCHANGED <<fetch_vars, convert_vars, provider_vars, list_vars, run_vars>>

Next == Developments \/ DevelopmentsFault

Spec == Init /\ [][Next]_vars

----------------------------------------------------------------------------
(* DevelopmentViewSet.list: the developments of a date window *)

(* the days of datetime.now().date(): one on which every date of the      *)
(* tables lies within the last three years, one on which date 1 does not   *)
Todays == {MaxDate + 1, 3 * 365 + 2}

(* the start of the window: the query parameter, by default three years   *)
(* before today                                                            *)
StartDate(start_date_str, today) ==
    IF start_date_str = NoDate THEN today - 3 * 365 ELSE start_date_str

InWindow(dev_date, start_date, end_date) ==
    dev_date >= start_date /\ (end_date = NoDate \/ dev_date <= end_date)

(* variant: the window is applied to the tables, before the valuation *)
filtered_developments_of_window(M, P, start_date, end_date) ==
    developments([m \in {x \in DOMAIN M : InWindow(x.date, start_date, end_date)} |-> M[m]],
                 {p \in P : InWindow(p.date, start_date, end_date)})

(* the developments of all tables, of which those of the window are kept *)
filtered_developments(M, P, start_date, end_date) ==
    SelectSeq(developments(M, P), LAMBDA d : InWindow(d.date, start_date, end_date))

(* list returns; the database yields NULL for x / 0 *)
List ==
    /\ pc = "start"
    /\ \E start_date_str \in Dates \cup {NoDate}, end_date \in Dates \cup {NoDate},
          today \in Todays :
        LET start_date == StartDate(start_date_str, today)
        IN  listing' = [called |-> TRUE, start_date |-> start_date, end_date |-> end_date,
                        rows |-> filtered_developments(movements, prices,
                                                       start_date, end_date)]
    /\ result' = developments(movements, prices)
    /\ pc' = "done"
    /\ UNCHANGED <<movements, prices>>
    /\ UNCHANGED <<fetch_vars, convert_vars, provider_vars, run_vars>>

(* list raises: the database faults on x / 0 in developments() *)
ListFault ==
    /\ pc = "start"
    /\ DivisionByZero(movements)
    /\ pc' = "error"
    /\ UNCHANGED <<movements, prices, result>>
    /\ UNCHANGED <<fetch_vars, convert_vars, provider_vars, list_vars, run_vars>>

NextList == List \/ ListFault

SpecList == Init /\ [][NextList]_vars


----------------------------------------------------------------------------
(* Vocabulary of the properties, defined on the tables themselves *)

Returned == pc = "done"

Devs == {result[k] : k \in 1..Len(result)}

Ledger == BagToSet(movements)

HasQuote(i, d) == \E p \in prices : p.investment = i /\ p.date = d

MovementsOn(i, d) == {m \in Ledger : m.investment = i /\ m.date = d}

TradesOn(i, d) == {m \in MovementsOn(i, d) : m.action \in {Buy, Sell}}

Candidates ==
    {<<m.investment, m.date>> : m \in Ledger} \cup {<<p.investment, p.date>> : p \in prices}

(* total quantity of the movements S with the given action *)
RECURSIVE TotalQuantity(_, _)
TotalQuantity(S, action) ==
    IF S = {} THEN 0
    ELSE LET m == CHOOSE x \in S : TRUE
         IN  (IF m.action = action THEN CopiesIn(m, movements) * m.quantity ELSE 0)
             + TotalQuantity(S \ {m}, action)

UpTo(i, d) == {m \in Ledger : m.investment = i /\ m.date <= d}

RECURSIVE Pow(_, _)
Pow(x, n) == IF n = 0 THEN 1 ELSE x * Pow(x, n - 1)

(* number of movements S, with multiplicity *)
RECURSIVE NumberOf(_)
NumberOf(S) ==
    IF S = {} THEN 0
    ELSE LET m == CHOOSE x \in S : TRUE
         IN  CopiesIn(m, movements) + NumberOf(S \ {m})

(* product of the absolute quantities of the movements S *)
RECURSIVE ProductOfQuantities(_)
ProductOfQuantities(S) ==
    IF S = {} THEN 1
    ELSE LET m == CHOOSE x \in S : TRUE
         IN  Pow(AbsInt(m.quantity), CopiesIn(m, movements)) * ProductOfQuantities(S \ {m})

(* sum over the movements m of S of abs(amount) * q / abs(quantity) *)
RECURSIVE ScaledSumOfUnitPrices(_, _)
ScaledSumOfUnitPrices(S, q) ==
    IF S = {} THEN 0
    ELSE LET m == CHOOSE x \in S : TRUE
         IN  CopiesIn(m, movements) * AbsInt(m.amount) * (q \div AbsInt(m.quantity))
             + ScaledSumOfUnitPrices(S \ {m}, q)

(* p is the simple mean of abs(amount / quantity) over the movements S,   *)
(* all of a non-zero quantity: p * |S| = sum of the unit prices            *)
IsMeanOfUnitPrices(p, S) ==
    /\ S # {}
    /\ p # None
    /\ p[1] * NumberOf(S) * ProductOfQuantities(S)
          = p[2] * ScaledSumOfUnitPrices(S, ProductOfQuantities(S))

RECURSIVE TotalAmount(_)
TotalAmount(S) ==
    IF S = {} THEN 0
    ELSE LET m == CHOOSE x \in S : TRUE
         IN  CopiesIn(m, movements) * m.amount + TotalAmount(S \ {m})

RECURSIVE TotalOfQuantities(_)
TotalOfQuantities(S) ==
    IF S = {} THEN 0
    ELSE LET m == CHOOSE x \in S : TRUE
         IN  CopiesIn(m, movements) * m.quantity + TotalOfQuantities(S \ {m})

(* p is the amount-weighted price abs(sum of amounts) / (sum of quantities) *)
IsAmountWeightedPrice(p, S) ==
    p[1] * TotalOfQuantities(S) = p[2] * AbsInt(TotalAmount(S))

----------------------------------------------------------------------------
(* C1: the quantity of every Development emitted for investment i and     *)
(* date d is the total quantity of the Buy movements of i dated <= d      *)
(* minus the total quantity of the Sell movements of i dated <= d;        *)
(* Payout movements and movements of other investments do not count.      *)
C1_CumulativeQuantity ==
    Returned =>
        \A dev \in Devs :
            dev.quantity = TotalQuantity(UpTo(dev.investment, dev.date), Buy)
                           - TotalQuantity(UpTo(dev.investment, dev.date), Sell)

(* a Development whose balance counts an earlier Buy, next to a Payout    *)
(* or a movement of another investment carrying a quantity                *)
C1_Witness ==
    /\ Returned
    /\ \E dev \in Devs :
        /\ dev.quantity > 0
        /\ \E m \in UpTo(dev.investment, dev.date) : m.action = Buy /\ m.date < dev.date
        /\ \E m \in Ledger :
            /\ m.quantity > 0
            /\ m.date <= dev.date
            /\ m.action = Payout \/ m.investment # dev.investment

(* C2: every emitted Development has value = quantity * price, also for   *)
(* zero and negative quantities.                                          *)
C2_ValueIsQuantityTimesPrice ==
    Returned =>
        \A dev \in Devs :
            /\ dev.value[2] > 0
            /\ dev.value[1] * dev.price[2] = dev.quantity * dev.price[1] * dev.value[2]

(* a Development with a negative quantity and a fractional price *)
C2_Witness ==
    /\ Returned
    /\ \E dev \in Devs : dev.quantity < 0 /\ dev.price[2] # 1 /\ dev.value[2] # 1

(* C3: if an InvestmentPrice exists for (i, d), the Development of (i, d) *)
(* is emitted with exactly that price, whatever movements occurred on d   *)
(* and whatever price was resolved before.                                *)
C3_QuoteOverrides ==
    Returned =>
        \A p \in prices :
            /\ \E dev \in Devs : dev.investment = p.investment /\ dev.date = p.date
            /\ \A dev \in Devs :
                (dev.investment = p.investment /\ dev.date = p.date) => dev.price = p.price

(* a quoted date that also has a trade, after an earlier resolved price *)
C3_Witness ==
    /\ Returned
    /\ \E p \in prices :
        /\ TradesOn(p.investment, p.date) # {}
        /\ \A m \in TradesOn(p.investment, p.date) : m.quantity # 0
        /\ \E dev \in Devs :
            dev.investment = p.investment /\ dev.date < p.date /\ dev.price # p.price
        /\ \E dev \in Devs :
            dev.investment = p.investment /\ dev.date = p.date /\ dev.price = p.price

(* the emitted Developments of the same investment on earlier dates *)
EarlierDevs(dev) == {e \in Devs : e.investment = dev.investment /\ e.date < dev.date}

NearestEarlier(dev) ==
    CHOOSE e \in EarlierDevs(dev) : \A f \in EarlierDevs(dev) : f.date <= e.date

(* C4: price stickiness: a Development on a date with no quote and no Buy *)
(* or Sell movement (a date bearing only Payout movements) carries the    *)
(* price of the nearest earlier emitted Development of its investment.    *)
C4_PriceStickiness ==
    Returned =>
        \A dev \in Devs :
            (~HasQuote(dev.investment, dev.date) /\ TradesOn(dev.investment, dev.date) = {})
                => /\ EarlierDevs(dev) # {}
                   /\ dev.price = NearestEarlier(dev).price

(* C5: on a date with no quote on which every movement is a Buy or a Sell *)
(* of a non-zero quantity, the price is the simple mean of                *)
(* abs(amount / quantity) over those movements, one by one.               *)
C5_SimpleMeanOfTrades ==
    Returned =>
        \A dev \in Devs :
            (/\ ~HasQuote(dev.investment, dev.date)
             /\ MovementsOn(dev.investment, dev.date) # {}
             /\ \A m \in MovementsOn(dev.investment, dev.date) :
                    m.action \in {Buy, Sell} /\ m.quantity # 0)
                => IsMeanOfUnitPrices(dev.price, MovementsOn(dev.investment, dev.date))

(* two trades of one day whose simple mean is not the amount-weighted price *)
C5_Witness ==
    /\ Returned
    /\ \E dev \in Devs :
        /\ ~HasQuote(dev.investment, dev.date)
        /\ NumberOf(MovementsOn(dev.investment, dev.date)) >= 2
        /\ \A m \in MovementsOn(dev.investment, dev.date) :
               m.action \in {Buy, Sell} /\ m.quantity # 0
        /\ IsMeanOfUnitPrices(dev.price, MovementsOn(dev.investment, dev.date))
        /\ ~IsAmountWeightedPrice(dev.price, MovementsOn(dev.investment, dev.date))

(* the ledger M without the Payout movements of investment i on date d *)
WithoutPayouts(M, i, d) ==
    [m \in {x \in BagToSet(M) : ~(x.investment = i /\ x.date = d /\ x.action = Payout)}
        |-> CopiesIn(m, M)]

PriceAt(devs, i, d) ==
    IF \E k \in 1..Len(devs) : devs[k].investment = i /\ devs[k].date = d
    THEN devs[CHOOSE k \in 1..Len(devs) : devs[k].investment = i /\ devs[k].date = d].price
    ELSE None

(* C6: Payout movements never contribute to the trade-implied price: on a *)
(* date with no quote and at least one Buy or Sell movement, the price is *)
(* the one resolved for the same ledger without the Payout movements of   *)
(* that date.                                                             *)
C6_PayoutsDoNotPrice ==
    Returned =>
        \A dev \in Devs :
            (~HasQuote(dev.investment, dev.date) /\ TradesOn(dev.investment, dev.date) # {})
                => dev.price =
                     PriceAt(developments(WithoutPayouts(movements, dev.investment, dev.date),
                                          prices),
                             dev.investment, dev.date)

(* the date has a trade-implied price: the average of abs(amount /        *)
(* quantity) over its movements is defined                                *)
HasTradePrice(k) == \E m \in MovementsOn(k[1], k[2]) : m.quantity # 0

PriceResolves(k) ==
    \/ HasQuote(k[1], k[2])
    \/ HasTradePrice(k)
    \/ \E e \in Candidates :
        e[1] = k[1] /\ e[2] < k[2] /\ (HasQuote(e[1], e[2]) \/ HasTradePrice(e))

C8_StrictlyAscending ==
    Returned =>
        \A j, k \in 1..Len(result) :
            j < k => \/ result[j].investment < result[k].investment
                     \/ /\ result[j].investment = result[k].investment
                        /\ result[j].date < result[k].date

(* two investments in the result, one key shared by a movement and a quote *)
C8_Witness ==
    /\ Returned
    /\ \E j, k \in 1..Len(result) :
        /\ result[j].investment # result[k].investment
        /\ result[j].date > result[k].date
    /\ \E m \in Ledger : HasQuote(m.investment, m.date)

HasMovements(i) == \E m \in Ledger : m.investment = i

(* C9 as stated: an investment with zero movements gets no Development,   *)
(* also when InvestmentPrice rows exist for it.                           *)
C9_NothingWithoutMovements ==
    Returned => \A dev \in Devs : HasMovements(dev.investment)

(* C9, amended: an investment with zero movements gets exactly one        *)
(* Development per InvestmentPrice row of it, with the quoted price,      *)
(* quantity 0 and value 0, and none when it has no InvestmentPrice row.   *)
C9_QuoteOnlyInvestment ==
    Returned =>
        \A i \in Investments :
            ~HasMovements(i) =>
                {dev \in Devs : dev.investment = i}
                    = {[investment |-> i, date |-> p.date, price |-> p.price,
                        quantity |-> 0, value |-> Decimal(0)] :
                          p \in {q \in prices : q.investment = i}}

(* an investment without movements is emitted, next to one that trades *)
C9_Witness ==
    /\ Returned
    /\ \E dev \in Devs :
        /\ ~HasMovements(dev.investment)
        /\ \E m \in Ledger : m.action = Buy /\ m.quantity > 0 /\ m.date <= dev.date

(* C10: a movement with zero quantity is no error: developments() returns *)
(* and, on a date with no quote, the price is the average over the Buy    *)
(* and Sell movements of the date that have a non-zero quantity.          *)
C10_ZeroQuantityIsNoError ==
    /\ pc # "error"
    /\ Returned =>
        \A dev \in Devs :
            LET rest == {m \in TradesOn(dev.investment, dev.date) : m.quantity # 0}
            IN  (/\ ~HasQuote(dev.investment, dev.date)
                 /\ \E m \in MovementsOn(dev.investment, dev.date) : m.quantity = 0
                 /\ rest # {})
                    => IsMeanOfUnitPrices(dev.price, rest)

(* the Developments emitted for the key k *)
DevsAt(k) == {dev \in Devs : dev.investment = k[1] /\ dev.date = k[2]}

(* the quantity held of investment i on date d: bought minus sold *)
Held(i, d) == TotalQuantity(UpTo(i, d), Buy) - TotalQuantity(UpTo(i, d), Sell)

(* the movements of the date are one Buy and one Sell of the same,        *)
(* non-zero, quantity                                                      *)
BoughtAndSoldOn(k) ==
    /\ NumberOf(MovementsOn(k[1], k[2])) = 2
    /\ \E b, s \in MovementsOn(k[1], k[2]) :
        b.action = Buy /\ s.action = Sell /\ b.quantity = s.quantity /\ b.quantity # 0

(* C11: a candidate date on which the cumulative quantity is zero is      *)
(* emitted whenever a price resolves for it, as one Development with      *)
(* quantity 0 and value 0; and a date with no quote whose movements are   *)
(* a Buy and a Sell of equal quantity emits one Development whose price   *)
(* is the mean of the two unit prices of the day.                         *)
C11_ZeroQuantityEmitted ==
    Returned =>
        \A k \in Candidates :
            /\ (PriceResolves(k) /\ Held(k[1], k[2]) = 0)
                  => /\ Cardinality(DevsAt(k)) = 1
                     /\ \A dev \in DevsAt(k) : dev.quantity = 0 /\ dev.value = Decimal(0)
            /\ (~HasQuote(k[1], k[2]) /\ BoughtAndSoldOn(k))
                  => /\ Cardinality(DevsAt(k)) = 1
                     /\ \A dev \in DevsAt(k) :
                            IsMeanOfUnitPrices(dev.price, MovementsOn(k[1], k[2]))

(* a Buy and a Sell of equal quantity on one date without a quote, at     *)
(* different unit prices: nothing is held and the date is emitted          *)
C11_Witness ==
    /\ Returned
    /\ \E k \in Candidates :
        /\ ~HasQuote(k[1], k[2])
        /\ BoughtAndSoldOn(k)
        /\ Held(k[1], k[2]) = 0
        /\ \E b, s \in MovementsOn(k[1], k[2]) :
            b.action = Buy /\ s.action = Sell /\ AbsInt(b.amount) # AbsInt(s.amount)
        /\ \E dev \in DevsAt(k) : dev.quantity = 0 /\ dev.value = Decimal(0)

----------------------------------------------------------------------------
(* Vocabulary of the properties of the quote fetch *)

(* a fetch of one investment has ended in the request being served *)
HasFetched == last_fetch.investment_id # 0

(* the investment of the last fetch and the result of that fetch *)
LastInvestment == investment_table[last_fetch.investment_id]

LastResult == results[Len(results)]

Failure(r, error) == ~r.success /\ r.error = error

(* the rows of the table T under the key (i, d), and their number *)
RowsAt(T, i, d) == {r \in BagToSet(T) : r.investment = i /\ r.date = d}

NumRowsAt(T, i, d) == BagSize(T, RowsAt(T, i, d))

(* the last fetch called no provider, attempted no conversion and left    *)
(* the Price Store as it was                                               *)
NothingDone ==
    /\ ~last_fetch.provider_called
    /\ ~last_fetch.requested
    /\ last_fetch.calls = <<>>
    /\ store = last_fetch.before

(* C12: a fetch for an investment without a ticker symbol fails with      *)
(* "No ticker symbol configured"; otherwise one without a quote provider   *)
(* fails with "No quote provider configured"; otherwise one whose provider *)
(* is not registered fails with an error naming the unknown provider.  In  *)
(* the three cases no provider is called, no conversion is attempted and   *)
(* the Price Store is unchanged.                                           *)
C12_RejectedConfiguration ==
    HasFetched =>
        /\ LastInvestment.ticker_symbol = ""
              => Failure(LastResult, "No ticker symbol configured") /\ NothingDone
        /\ (LastInvestment.ticker_symbol # "" /\ LastInvestment.quote_provider = "")
              => Failure(LastResult, "No quote provider configured") /\ NothingDone
        /\ (/\ LastInvestment.ticker_symbol # ""
            /\ LastInvestment.quote_provider # ""
            /\ LastInvestment.quote_provider \notin {"openbb_yahoo", "justetf"})
              => /\ Failure(LastResult,
                            "Unknown provider: " \o LastInvestment.quote_provider)
                 /\ NothingDone

(* an investment with neither ticker symbol nor provider is rejected for  *)
(* its ticker symbol, after an investment with an unknown provider, while  *)
(* the Price Store holds a row                                             *)
C12_Witness ==
    /\ HasFetched
    /\ LastInvestment.ticker_symbol = ""
    /\ LastInvestment.quote_provider = ""
    /\ Failure(LastResult, "No ticker symbol configured")
    /\ Len(results) = 2
    /\ Failure(results[1], "Unknown provider: other")
    /\ store # EmptyBag

(* the investment of the last fetch has a ticker symbol and a registered  *)
(* provider                                                                *)
CorrectlyConfigured ==
    /\ LastInvestment.ticker_symbol # ""
    /\ LastInvestment.quote_provider \in {"openbb_yahoo", "justetf"}

(* C13: if the provider selected for a correctly configured investment    *)
(* returns no quote data, the result of the investment is a failure with   *)
(* the error "No quote data returned from provider" and the Price Store    *)
(* is unchanged.                                                           *)
C13_NoQuoteData ==
    (HasFetched /\ CorrectlyConfigured /\ last_fetch.provider_called
        /\ last_fetch.quotes = <<>>)
        => /\ Failure(LastResult, "No quote data returned from provider")
           /\ store = last_fetch.before

(* the provider asked its API, returned no quote, and the Price Store     *)
(* holds a row                                                             *)
C13_Witness ==
    /\ HasFetched
    /\ CorrectlyConfigured
    /\ last_fetch.provider_called
    /\ last_fetch.requested
    /\ last_fetch.quotes = <<>>
    /\ Failure(LastResult, "No quote data returned from provider")
    /\ store # EmptyBag

(* the quotes of the last fetch, and the positions of those in another    *)
(* currency than the base currency, in order                               *)
LastQuotes == last_fetch.quotes

ForeignQuotes ==
    SelectSeq([k \in 1..Len(LastQuotes) |-> k],
              LAMBDA k : LastQuotes[k].currency # base_currency)

(* quote k was stored last under its date: it has a price in the base     *)
(* currency and no later quote of the same date has one                    *)
HasBasePrice(k) ==
    \/ LastQuotes[k].currency = base_currency
    \/ \E n \in 1..Len(last_fetch.calls) :
        n <= Len(ForeignQuotes) /\ ForeignQuotes[n] = k /\ last_fetch.calls[n].value # None

StoredLast(k) ==
    /\ HasBasePrice(k)
    /\ \A j \in (k + 1)..Len(LastQuotes) :
        LastQuotes[j].date = LastQuotes[k].date => ~HasBasePrice(j)

(* the rows of the Price Store under the date of quote k *)
RowsOfQuote(k) == RowsAt(store, last_fetch.investment_id, LastQuotes[k].date)

(* C14: for every quote in another currency than the base currency that   *)
(* the fetch gets to, the converter is invoked exactly once, with the      *)
(* price of the quote, its currency, the base currency and the date of     *)
(* the quote itself (never the latest rate); only an exception ends the    *)
(* calls early; and the price stored under the date of the quote is the    *)
(* converted amount, not the price of the provider.                        *)
C14_ConvertedOnQuoteDate ==
    HasFetched =>
        /\ Len(last_fetch.calls) <= Len(ForeignQuotes)
        /\ \A n \in 1..Len(last_fetch.calls) :
            LET call == last_fetch.calls[n]
                quote_data == LastQuotes[ForeignQuotes[n]]
            IN  /\ call.amount = quote_data.price
                /\ call.from_currency = quote_data.currency
                /\ call.to_currency = base_currency
                /\ call.conversion_date = quote_data.date
                /\ call.conversion_date # NoDate
                /\ (LastResult.success /\ call.value # None /\ StoredLast(ForeignQuotes[n]))
                      => /\ NumRowsAt(store, last_fetch.investment_id, quote_data.date) = 1
                         /\ \A r \in RowsOfQuote(ForeignQuotes[n]) : r.price = call.value
        /\ Len(last_fetch.calls) < Len(ForeignQuotes)
              => /\ last_fetch.calls # <<>>
                 /\ last_fetch.calls[Len(last_fetch.calls)].raised
                 /\ ~LastResult.success

(* two quotes in another currency, both converted on their own dates, and *)
(* a stored price that is the converted amount and not the provider's      *)
C14_Witness ==
    /\ HasFetched
    /\ LastResult.success
    /\ Len(ForeignQuotes) >= 2
    /\ Len(last_fetch.calls) = Len(ForeignQuotes)
    /\ LastQuotes[1].date # LastQuotes[2].date
    /\ \E n \in 1..Len(last_fetch.calls) :
        /\ last_fetch.calls[n].value # None
        /\ last_fetch.calls[n].value # LastQuotes[n].price
        /\ \E r \in RowsOfQuote(ForeignQuotes[n]) : r.price = last_fetch.calls[n].value

(* C15: for every quote in the base currency the converter is not         *)
(* invoked, the result is a success without an error, and the row of the   *)
(* Price Store under (investment, date of the quote) carries exactly the   *)
(* price of the provider and the source tag of the quote, which is the     *)
(* name of the provider.                                                   *)
C15_StoredAsQuoted ==
    (HasFetched /\ LastQuotes # <<>>
        /\ \A k \in 1..Len(LastQuotes) : LastQuotes[k].currency = base_currency)
        => /\ last_fetch.calls = <<>>
           /\ LastResult.success
           /\ LastResult.error = NoError
           /\ \A k \in 1..Len(LastQuotes) :
               /\ NumRowsAt(store, last_fetch.investment_id, LastQuotes[k].date) = 1
               /\ \A r \in RowsOfQuote(k) :
                   /\ r.source = LastQuotes[k].source
                   /\ r.source = LastInvestment.quote_provider
                   /\ StoredLast(k) => r.price = LastQuotes[k].price

(* quotes in the base currency stored over a row of another source *)
C15_Witness ==
    /\ HasFetched
    /\ LastResult.success
    /\ LastQuotes # <<>>
    /\ last_fetch.calls = <<>>
    /\ \E k \in 1..Len(LastQuotes) :
        /\ LastQuotes[k].currency = base_currency
        /\ \E r \in RowsAt(last_fetch.before, last_fetch.investment_id, LastQuotes[k].date) :
            r.source = "manual" /\ r.price # LastQuotes[k].price
        /\ \E r \in RowsOfQuote(k) :
            r.source = "justetf" /\ r.price = LastQuotes[k].price

(* the n-th call of the converter returned no result *)
NoResult(n) == last_fetch.calls[n].value = None /\ ~last_fetch.calls[n].raised

(* the converted amount of quote k, when the converter returned one *)
Converted(k, amount) ==
    \E n \in 1..Len(last_fetch.calls) :
        ForeignQuotes[n] = k /\ last_fetch.calls[n].value = amount /\ amount # None

(* C16: in a fetch in which the converter returns no result for one       *)
(* quote, that quote is not written: the row under its date keeps its old  *)
(* price (unless another quote of that date is stored); and every other    *)
(* quote of the fetch whose conversion succeeds is still stored.           *)
C16_FailedConversionSkipped ==
    HasFetched =>
        \A n \in 1..Len(last_fetch.calls) :
            NoResult(n) =>
                /\ (\A j \in 1..Len(LastQuotes) :
                        LastQuotes[j].date = LastQuotes[ForeignQuotes[n]].date
                            => ~HasBasePrice(j))
                      => RowsOfQuote(ForeignQuotes[n])
                            = RowsAt(last_fetch.before, last_fetch.investment_id,
                                     LastQuotes[ForeignQuotes[n]].date)
                /\ \A k \in 1..Len(LastQuotes) :
                    (StoredLast(k) /\ k # ForeignQuotes[n])
                        => \E r \in RowsOfQuote(k) : Converted(k, r.price)

(* the price of quote k in the base currency is the amount *)
BasePrice(k, amount) ==
    IF LastQuotes[k].currency = base_currency THEN amount = LastQuotes[k].price
    ELSE Converted(k, amount)

(* the quotes of the last fetch stored successfully under the date d: the *)
(* fetch ended in success and the quote has a price in the base currency   *)
StoredUnder(d) ==
    {k \in 1..Len(LastQuotes) :
        LastResult.success /\ LastQuotes[k].date = d /\ HasBasePrice(k)}

(* C17: from a Price Store with at most one row per (investment, date),   *)
(* every sequence of fetches, one after the other, leaves at most one row  *)
(* per key, and the row of a key holds the price and the source of the     *)
(* quote stored last under it: a fetch overwrites the row with the last    *)
(* quote it stores under the key, also when the response of the provider   *)
(* has two quotes of the same date, and leaves every other row as it was.  *)
C17_OneRowPerKey ==
    /\ \A i \in Investments, d \in QuoteDates : NumRowsAt(store, i, d) <= 1
    /\ HasFetched =>
        \A i \in Investments, d \in QuoteDates :
            IF i = last_fetch.investment_id /\ StoredUnder(d) # {}
            THEN \A k \in StoredUnder(d) :
                    (\A j \in StoredUnder(d) : j <= k)
                        => /\ NumRowsAt(store, i, d) = 1
                           /\ \A r \in RowsAt(store, i, d) :
                               BasePrice(k, r.price) /\ r.source = LastQuotes[k].source
            ELSE /\ RowsAt(store, i, d) = RowsAt(last_fetch.before, i, d)
                 /\ NumRowsAt(store, i, d) = NumRowsAt(last_fetch.before, i, d)

(* a response with two quotes of one date, stored over a row that the     *)
(* Price Store held under that date                                        *)
C17_Witness ==
    /\ HasFetched
    /\ LastResult.success
    /\ \E d \in QuoteDates :
        /\ Cardinality(StoredUnder(d)) >= 2
        /\ NumRowsAt(last_fetch.before, last_fetch.investment_id, d) = 1
        /\ NumRowsAt(store, last_fetch.investment_id, d) = 1
        /\ RowsAt(store, last_fetch.investment_id, d)
              # RowsAt(last_fetch.before, last_fetch.investment_id, d)

(* the investments the request in progress is to process: those of the    *)
(* ids given or, when none is given, those with a quote provider           *)
Selected ==
    IF investment_ids.given /\ investment_ids.list # {}
    THEN investment_ids.list \cap Investments
    ELSE {i \in Investments : investment_table[i].quote_provider # ""}

(* the investments that have a result, in the order of the results *)
Processed == [k \in 1..Len(results) |-> results[k].investment_id]

(* C18: in fetch_quotes the failure of one investment (a rejected         *)
(* configuration, an empty answer of the provider, an exception) never     *)
(* ends the batch: whatever the results so far, every selected investment  *)
(* is either processed or still to be processed, so that all are processed *)
(* when fetch_quotes returns; and a fetch that fails leaves the Price      *)
(* Store as it was, with the prices stored for earlier investments.        *)
C18_FailureDoesNotAbort ==
    /\ fpc # "idle" => Processed \o pending = Ascending(Selected)
    /\ fpc = "returned" => Len(results) = Cardinality(Selected)
    /\ (HasFetched /\ ~LastResult.success) => store = last_fetch.before

(* fetch_quotes has returned: the first investment had its prices stored, *)
(* the second failed on an exception of the converter, and the prices of   *)
(* the first are still stored                                              *)
C18_Witness ==
    /\ fpc = "returned"
    /\ Len(results) = 2
    /\ results[1].success
    /\ ~results[2].success
    /\ last_fetch.calls # <<>>
    /\ last_fetch.calls[Len(last_fetch.calls)].raised
    /\ \E r \in BagToSet(store) :
        r.investment = results[1].investment_id /\ r.source = "justetf"

(* C19: the result list that fetch_quotes(investment_ids) returns is      *)
(* complete: it has exactly one result for every investment id that was    *)
(* requested, including the ids that match no stored investment.           *)
C19_CompleteResults ==
    (fpc = "returned" /\ investment_ids.given)
        => \A id \in investment_ids.list :
               Cardinality({k \in 1..Len(results) : results[k].investment_id = id}) = 1

(* C20: convert(amount, C, C, date) returns the amount unchanged, for     *)
(* every amount, every currency C and every date, given or absent, and     *)
(* sends no request to the rate service.                                   *)
C20_SameCurrencyIsIdentity ==
    (convert_return.returned /\ convert_call.from_currency = convert_call.to_currency)
        => /\ convert_return.value = convert_call.amount
           /\ ~convert_return.raised
           /\ convert_return.lookups = <<>>

(* a call with equal currencies and no date, of an amount that is not a   *)
(* whole number, while the rate service would answer with a document that  *)
(* convert() cannot read                                                   *)
C20_Witness ==
    /\ convert_return.returned
    /\ convert_call.from_currency = convert_call.to_currency
    /\ convert_call.conversion_date = NoDate
    /\ convert_call.amount = Dec(1, 3)
    /\ convert_call.response.kind = "malformed"
    /\ convert_return.value = Dec(1, 3)

(* C21: convert is total: whatever the rate service does (a failed        *)
(* request, a document without the target currency, a document that        *)
(* cannot be read), convert returns a converted amount or None and never   *)
(* raises to its caller.                                                   *)
C21_ConvertIsTotal ==
    convert_return.returned =>
        /\ ~convert_return.raised
        /\ convert_call.response.kind # "rates" => convert_return.value = None

(* the rows of the Price Store that the last fetch created or changed *)
Written ==
    {r \in BagToSet(store) :
        CopiesIn(r, store) # CopiesIn(r, last_fetch.before)}

(* C22: a fetch of one investment is all-or-nothing: if it ends in        *)
(* failure, also on an exception raised after quotes of the investment     *)
(* were upserted, no key of the Price Store has a row created, changed or  *)
(* removed by it; and every row a fetch does write carries the price of a  *)
(* quote in the base currency: the price of the provider for a quote in    *)
(* the base currency, the converted amount otherwise.                      *)
C22_AllOrNothing ==
    HasFetched =>
        /\ ~LastResult.success =>
            \A i \in Investments, d \in QuoteDates :
                /\ RowsAt(store, i, d) = RowsAt(last_fetch.before, i, d)
                /\ NumRowsAt(store, i, d) = NumRowsAt(last_fetch.before, i, d)
        /\ \A r \in Written :
            /\ r.investment = last_fetch.investment_id
            /\ \E k \in 1..Len(LastQuotes) :
                LastQuotes[k].date = r.date /\ BasePrice(k, r.price)

(* an exception of the converter ended the fetch after a quote had been   *)
(* converted and upserted over a row of the Price Store, which is as it    *)
(* was before the fetch                                                    *)
C22_Witness ==
    /\ HasFetched
    /\ ~LastResult.success
    /\ Len(last_fetch.calls) >= 2
    /\ last_fetch.calls[1].value # None
    /\ last_fetch.calls[Len(last_fetch.calls)].raised
    /\ NumRowsAt(last_fetch.before, last_fetch.investment_id, LastQuotes[1].date) = 1
    /\ store = last_fetch.before

----------------------------------------------------------------------------
(* C23: the provider response cache does not outlive one request: every   *)
(* request starts with an empty cache, so the first fetch of a request for *)
(* an investment configured for JustETF sends an upstream request, even    *)
(* when an earlier request has fetched the same ticker.                    *)
C23_CacheDoesNotOutlive ==
    /\ (fpc = "fetching" /\ results = <<>>) => cache = {}
    /\ (/\ HasFetched
        /\ Len(results) = 1
        /\ CorrectlyConfigured
        /\ LastInvestment.quote_provider = "justetf") => last_fetch.requested

(* the second request sends an upstream request although the first one    *)
(* stored quotes of the same ticker, and it gets a different series: the   *)
(* date stored by the first request is not in it                           *)
C23_Witness ==
    /\ requests = 2
    /\ HasFetched
    /\ last_fetch.requested
    /\ LastQuotes # <<>>
    /\ \E r \in BagToSet(last_fetch.before) :
        /\ r.investment = last_fetch.investment_id
        /\ r.source = "justetf"
        /\ \A k \in 1..Len(LastQuotes) : LastQuotes[k].date # r.date

----------------------------------------------------------------------------
(* C24: when fetch_quotes is called without investment ids, every         *)
(* investment that is processed, and so every result entry, belongs to an  *)
(* investment that has both a ticker symbol and a quote provider.          *)
C24_OnlyConfiguredProcessed ==
    (fpc # "idle" /\ ~(investment_ids.given /\ investment_ids.list # {})) =>
        \A k \in 1..Len(results) :
            /\ investment_table[results[k].investment_id].ticker_symbol # ""
            /\ investment_table[results[k].investment_id].quote_provider # ""

----------------------------------------------------------------------------
(* C26: both registered providers support the bulk-history fetch: a fetch *)
(* for an investment with a ticker symbol and a registered provider calls  *)
(* get_quotes of the provider, and when the quotes it returns are in the   *)
(* base currency the fetch ends in success with the quotes stored.         *)
C26_RegisteredProvidersFetch ==
    (HasFetched /\ CorrectlyConfigured) =>
        /\ last_fetch.provider_called
        /\ (/\ LastQuotes # <<>>
            /\ \A k \in 1..Len(LastQuotes) : LastQuotes[k].currency = base_currency)
              => /\ LastResult.success
                 /\ \A k \in 1..Len(LastQuotes) :
                      StoredLast(k) =>
                          \A r \in RowsOfQuote(k) : r.price = LastQuotes[k].price

----------------------------------------------------------------------------
(* C28: a fetch that reports success has created or updated at least one  *)
(* row of the investment: some quote of the fetch had a price in the base  *)
(* currency and was upserted; a fetch in which the conversion of every     *)
(* quote failed does not report success.                                   *)
C28_SuccessMeansStored ==
    (HasFetched /\ LastResult.success) =>
        \E k \in 1..Len(LastQuotes) : HasBasePrice(k)

----------------------------------------------------------------------------
(* the movements and the prices of investment i alone *)
MovementsOf(M, i) == [m \in {x \in DOMAIN M : x.investment = i} |-> M[m]]

PricesOf(P, i) == {p \in P : p.investment = i}

(* the Developments of investment i in a valuation, in their order *)
DevelopmentsOf(devs, i) == SelectSeq(devs, LAMBDA v : v.investment = i)

(* C29: the valuation of one investment is independent of the others: the *)
(* Developments developments() emits for investment i, in their order, are *)
(* those it emits when the movements and prices of i are the only ones;    *)
(* no price is carried forward from one investment to another.             *)
C29_InvestmentsAreIndependent ==
    pc = "done" =>
        \A i \in Investments :
            DevelopmentsOf(result, i) =
                developments(MovementsOf(movements, i), PricesOf(prices, i))

(* investment 1 is emitted with a price; investment 2, later in the loop, *)
(* has a date without a price of its own and is not emitted                *)
C29_Witness ==
    /\ pc = "done"
    /\ DevelopmentsOf(result, 1) # <<>>
    /\ \E m \in BagToSet(movements) : m.investment = 2
    /\ DevelopmentsOf(result, 2) = <<>>

----------------------------------------------------------------------------
(* an earlier call than call k, for the same ticker, sent a request that  *)
(* succeeded                                                               *)
FetchedBefore(k) ==
    \E j \in 1..(k - 1) :
        /\ provider_calls[j].ticker = provider_calls[k].ticker
        /\ provider_calls[j].requested
        /\ provider_calls[j].found

(* C25: on one provider, a call of get_quote or get_quotes sends an       *)
(* upstream request exactly when no earlier request for its ticker has     *)
(* succeeded: after a success every call for the ticker is answered from   *)
(* the cache, with the document of that success, and a failed request is   *)
(* not cached, so that the next call for the ticker sends a request.       *)
C25_CachedAfterSuccess ==
    \A k \in 1..Len(provider_calls) :
        /\ provider_calls[k].requested <=> ~FetchedBefore(k)
        /\ \A j \in 1..(k - 1) :
            (/\ provider_calls[j].ticker = provider_calls[k].ticker
             /\ provider_calls[j].requested
             /\ provider_calls[j].found)
                => /\ provider_calls[k].found
                   /\ provider_calls[k].document = provider_calls[j].document

(* a request for a ticker fails, the next call for it sends a request     *)
(* that succeeds, and a call of the other method is answered from the      *)
(* cache                                                                   *)
C25_Witness ==
    /\ Len(provider_calls) = 3
    /\ \A k \in 1..3 : provider_calls[k].ticker = "T"
    /\ provider_calls[1].requested /\ ~provider_calls[1].found
    /\ provider_calls[2].requested /\ provider_calls[2].found
    /\ provider_calls[2].method = "get_quotes"
    /\ provider_calls[3].method = "get_quote"
    /\ ~provider_calls[3].requested
    /\ provider_calls[3].document # <<>>

----------------------------------------------------------------------------
(* C27: the developments listed for a date window are exactly those of    *)
(* the valuation of all movements and prices whose date lies in the        *)
(* window, in the same order and with the same quantity, price and value:  *)
(* what is dated before the start still counts for the quantity and the    *)
(* carried-forward price of the dates inside the window.                   *)
C27_WindowIsAFilter ==
    (listing.called /\ pc = "done") =>
        /\ result = developments(movements, prices)
        /\ listing.rows =
              SelectSeq(result,
                        LAMBDA v : /\ v.date >= listing.start_date
                                   /\ (listing.end_date # NoDate => v.date <= listing.end_date))

(* a listed date has a quantity and a price although the investment has   *)
(* no price and no movement of a non-zero quantity inside the window: both *)
(* come from before the start                                              *)
C27_Witness ==
    /\ listing.called
    /\ pc = "done"
    /\ listing.start_date \in Dates
    /\ listing.end_date \in Dates
    /\ \E k \in 1..Len(listing.rows) :
        LET v == listing.rows[k]
        IN  /\ v.quantity > 0
            /\ \A m \in BagToSet(movements) :
                  (m.investment = v.investment /\ m.date >= listing.start_date)
                      => m.quantity = 0
            /\ \A p \in prices : p.investment = v.investment => p.date < listing.start_date

----------------------------------------------------------------------------
(* C30: when two requests store a quote under the same (investment, date) *)
(* and their steps interleave, the Price Store still holds at most one row *)
(* under every key: no interleaving of the lookup and the insert of the    *)
(* upsert creates a second row.                                            *)
C30_NoDuplicateUnderRace ==
    \A i \in Investments, d \in QuoteDates : NumRowsAt(store, i, d) <= 1

====
